---------------------------- MODULE Spec2Model ----------------------------
(***************************************************************************)
(* A model of src/src/InstagramBridge.js, the main class of the            *)
(* matrix-appservice-instagram bridge.                                     *)
(*                                                                         *)
(* The class is a set of callbacks: the bridge library calls               *)
(* _onAliasQuery, _onAliasQueried and _onEvent, the publish/subscribe bus  *)
(* calls _onProfileUpdate and _onMedia.  Every callback starts             *)
(* asynchronous calls (to the store, the profile service, the homeserver)  *)
(* and continues in promise callbacks.  JavaScript runs one callback at a  *)
(* time: each action below is one callback run to completion, and the      *)
(* answers of the collaborators arrive in any order.                       *)
(*                                                                         *)
(* Strings are TLA+ strings; the string operations the code uses           *)
(* (indexOf, substring, +) are computed on them.                           *)
(***************************************************************************)
EXTENDS Naturals, Sequences, FiniteSets, TLC

(***************************************************************************)
(* Bounds of the model.                                                    *)
(***************************************************************************)
\* Alias queries that may be in progress at the same time.
MaxQueries == 2

\* The most media items a newMedia event carries.
MaxMedia == 2

\* The most events the homeserver pushes to _onEvent.
MaxEvents == 1

\* The most calls of _processRoom.
MaxRuns == 2

(***************************************************************************)
(* Values of the program and of its configuration.                         *)
(***************************************************************************)
\* The literal "_instagram_" of _onAliasQuery, getIgUserIntent, isBridgeUser.
Prefix == "_instagram_"

\* this._bridge.opts.domain
Domain == "t2l.io"

\* this._bridge.getBot().getUserId(): the registration's sender, a user
\* outside the virtual users' namespace.
BotUserId == "@igbridge:" \o Domain

\* The value of a JavaScript expression that has no value.
Undefined == "<undefined>"

\* userMap[bot] = 100 and userMap[virtualUserId] = 50
BotPowerLevel == 100
VirtualUserPowerLevel == 50

(***************************************************************************)
(* String operations.                                                      *)
(***************************************************************************)
\* s.substring(n)
Substring(s, n) == SubSeq(s, n + 1, Len(s))

\* s.indexOf(p): the first position (from 0) at which p occurs in s, -1
\* (here: Len(s) + 1, which is no position) when it does not occur.
IndexOf(s, p) ==
    LET hits == {i \in 0..Len(s) :
                    /\ i + Len(p) <= Len(s)
                    /\ SubSeq(s, i + 1, i + Len(p)) = p}
    IN  IF hits = {} THEN Len(s) + 1
        ELSE CHOOSE i \in hits : \A j \in hits : i <= j

\* A variant of HasPrefix: indexOf(...) !== -1, the prefix anywhere.
HasPrefixAnywhere(aliasLocalpart) ==
    IndexOf(aliasLocalpart, Prefix) <= Len(aliasLocalpart)

\* aliasLocalpart.indexOf("_instagram_") === 0
HasPrefix(aliasLocalpart) == IndexOf(aliasLocalpart, Prefix) = 0

\* "@_instagram_" + handle + ":" + this._bridge.opts.domain
VirtualUserId(handle) == "@" \o Prefix \o handle \o ":" \o Domain

\* obj[key] = value on a JavaScript object: a later assignment to the same
\* key replaces the earlier one.
SetKey(obj, key, value) == (key :> value) @@ obj

(***************************************************************************)
(* Inputs.                                                                 *)
(***************************************************************************)
Handles == {"", "al", "bo"}

\* Localparts a homeserver may ask about: with the prefix, without it, with
\* the prefix cut short, and with the prefix not at the start.
AliasLocalparts ==
    {Prefix \o h : h \in Handles}
        \cup {"", "al", "instagram_al", "_instagram", "x_instagram_al"}

\* What ProfileService.getProfile may answer for a handle.
Profiles(handle) ==
    {[username |-> handle, displayName |-> d, avatarUrl |-> "http://ig/" \o handle \o ".png"] :
        d \in {"Al", ""}}

\* Content references the homeserver may answer an upload with.
MxcUrls == {"mxc://t2l.io/1", "mxc://t2l.io/2"}

QueryIds == 1..MaxQueries

\* The rooms of the homeserver.
Rooms == {"!r1", "!r2"}

\* The media item at position i of a post: images at the odd positions,
\* videos at the even ones, each with its own url and size.
Container(i) ==
    [type |-> IF i % 2 = 1 THEN "image" ELSE "video",
     content |-> [url |-> "http://ig/m" \o ToString(i), width |-> 100 * i,
                  height |-> 100 * i + 1]]

\* The newMedia events the media handler publishes: a post of the account
\* "al" with 0..MaxMedia items, with a caption or with an empty one.
MediaEvents ==
    {[username |-> "al", media |-> [i \in 1..n |-> Container(i)],
      caption |-> c, sourceUrl |-> "http://ig/p/1", postId |-> "1", userId |-> 7] :
        n \in 0..MaxMedia, c \in {"", "hi"}}

\* What GET /joined_rooms may answer: a body without joined_rooms, or one
\* with the list of some rooms.
JoinedRoomsAnswers ==
    {[chunk |-> <<>>]}
        \cup {[joined_rooms |-> l] :
                l \in {<<>>, <<"!r1">>, <<"!r2">>, <<"!r1", "!r2">>}}

\* The users of the homeserver: the bot, the virtual user of the account
\* "al", and two users the bridge does not own.
Users == {BotUserId, VirtualUserId("al"), "@u1:" \o Domain, "@u2:" \o Domain}

\* A user id of the virtual users' namespace on another homeserver.
ForeignVirtualUserId == "@" \o Prefix \o "al:other.org"

\* The joined members a room may have when the bridge starts.
StartMembers ==
    {{BotUserId}, {"@u1:" \o Domain}, {BotUserId, "@u1:" \o Domain},
     {"@u1:" \o Domain, "@u2:" \o Domain},
     {BotUserId, "@u1:" \o Domain, "@u2:" \o Domain}}

\* The joined members the second room may have when the bridge starts.
OtherStartMembers == {{"@u1:" \o Domain}, {BotUserId, "@u1:" \o Domain}}

\* The events the homeserver may push for a room: an invite of the bot, of
\* a virtual user or of a user of another server, a join, and a message.
RoomEvents ==
    {[type |-> "m.room.member", membership |-> "invite", state_key |-> u,
      room_id |-> "!r1"] : u \in {BotUserId, VirtualUserId("al"), ForeignVirtualUserId}}
    \cup {[type |-> "m.room.member", membership |-> "join",
           state_key |-> BotUserId, room_id |-> "!r1"],
          [type |-> "m.room.message", membership |-> "", state_key |-> "",
           room_id |-> "!r1"]}

\* The accounts a room of the room store may be linked to.
LinkedHandles == {"al"}

\* The profileUpdate events the profile service publishes.
ProfileUpdates ==
    {[username |-> "al",
      profile |-> [displayName |-> "Al", avatarUrl |-> "http://ig/al.png"],
      changed |-> c] : c \in {"displayName", "avatar", "bio"}}

VARIABLES
    links,      \* links[r]: the accounts room r is linked to in the room store
    members,    \* members[r]: the joined members of room r on the homeserver
    adminRooms, \* this._adminRooms
    scan,       \* where _bridgeKnownRooms is: "idle", "joined_rooms", "done", "failed"
    runs,       \* the calls of _processRoom, in the order they were made
    requests,   \* the calls of _onEvent, in the order they were made
    aliased,    \* the rooms _onAliasQueried was called for
    adminEvents, \* the events given to AdminRoom.handleEvent, in order
    aq,         \* aq[q]: the alias query q, see IdleQuery
    aqCalls,    \* aqCalls[q]: the calls query q made to its collaborators
    aqLog,      \* aqLog[q]: what query q wrote with log.error
    md,         \* the newMedia event being handled, see IdleMedia
    post,       \* post[r]: the _postMedia call for room r, see IdlePost
    messages,   \* messages[r]: the sendMessage calls for room r, in order
    uploads,    \* the uploadContentFromUrl calls of _uploadMedia, in order
    stored,     \* the InstagramStore.storeMedia calls, a set of records
    expiration, \* the number of updateMediaExpirationTime calls
    pu,         \* the profileUpdate event being handled, see IdleProfileUpdate
    puCalls,    \* the calls _onProfileUpdate made to intents and uploads
    profileChecks \* the handles given to ProfileService.queueProfileCheck

aliasVars == <<aq, aqCalls, aqLog>>

mediaVars == <<md, post, messages, uploads, stored, expiration>>

profileVars == <<pu, puCalls>>

roomVars == <<members, adminRooms, scan, runs, requests, aliased, adminEvents>>

vars == <<links, roomVars, aliasVars, mediaVars, profileVars, profileChecks>>

\* What an action of one handler leaves alone: the other handlers' state.
AliasFrame == UNCHANGED <<links, roomVars, mediaVars, profileVars, profileChecks>>

MediaFrame == UNCHANGED <<links, roomVars, aliasVars, profileVars>>

ProfileFrame == UNCHANGED <<links, roomVars, aliasVars, mediaVars>>

RoomFrame == UNCHANGED <<aliasVars, mediaVars, profileVars, profileChecks>>

\* An alias query before _onAliasQuery is called.  pc is the promise the
\* query waits for, or how it ended: "threw", "rejected", "resolved".
\* isAuthed is <<>> until hasAuthTokens has answered and <<answer>> after;
\* error is what the caller receives, params what the promise resolves to.
IdleQuery ==
    [pc |-> "idle", aliasLocalpart |-> "", handle |-> "", isAuthed |-> <<>>,
     realProfile |-> <<>>, error |-> Undefined, params |-> <<>>]

(***************************************************************************)
(* _onAliasQuery: the room provisioner.                                    *)
(***************************************************************************)
\* A variant of RoomCreationParameters: the two power levels swapped and the
\* bot invited.
RoomCreationParametersSwapped(aliasLocalpart, handle, realProfile, avatarMxc) ==
    LET virtualUserId == VirtualUserId(handle)
        userMap == SetKey(SetKey(<<>>, BotUserId, VirtualUserPowerLevel),
                          virtualUserId, BotPowerLevel)
    IN  [remote |-> [roomId |-> aliasLocalpart, instagram_username |-> handle],
         room_alias_name |-> aliasLocalpart,
         name |-> "[Instagram] " \o realProfile.displayName,
         visibility |-> "public",
         topic |-> realProfile.username \o "'s Instagram feed",
         invite |-> <<BotUserId>>,
         join_rule |-> "public",
         avatar |-> avatarMxc,
         power_levels |->
            [events_default |-> 0, invite |-> 0, kick |-> 50, ban |-> 50,
             redact |-> 50, state_default |-> 50, events |-> 100,
             users_default |-> 0, users |-> userMap],
         account_info |-> [handle |-> handle]]

\* The object the last .then of _onAliasQuery returns.
RoomCreationParameters(aliasLocalpart, handle, realProfile, avatarMxc) ==
    LET virtualUserId == VirtualUserId(handle)
        userMap == SetKey(SetKey(<<>>, BotUserId, BotPowerLevel),
                          virtualUserId, VirtualUserPowerLevel)
    IN  [remote |-> [roomId |-> aliasLocalpart, instagram_username |-> handle],
         room_alias_name |-> aliasLocalpart,
         name |-> "[Instagram] " \o realProfile.displayName,
         visibility |-> "public",
         topic |-> realProfile.username \o "'s Instagram feed",
         invite |-> <<virtualUserId>>,
         join_rule |-> "public",
         avatar |-> avatarMxc,
         power_levels |->
            [events_default |-> 0, invite |-> 0, kick |-> 50, ban |-> 50,
             redact |-> 50, state_default |-> 50, events |-> 100,
             users_default |-> 0, users |-> userMap],
         account_info |-> [handle |-> handle]]

\* A variant of AliasQueryCatch: the .catch logs and does not reject, so
\* the promise of the query is fulfilled.
AliasQueryCatchSwallows(q, isAuthed, err) ==
    /\ aq' = [aq EXCEPT ![q].pc = "resolved", ![q].isAuthed = isAuthed,
                        ![q].error = Undefined]
    /\ aqLog' = [aqLog EXCEPT ![q] =
            @ \o <<"Failed to create room for alias #" \o aq[q].aliasLocalpart, err>>]

\* The .catch of _onAliasQuery: it logs the error it caught and rejects with
\* nothing, Promise.reject().
AliasQueryCatch(q, isAuthed, err) ==
    /\ aq' = [aq EXCEPT ![q].pc = "rejected", ![q].isAuthed = isAuthed,
                        ![q].error = Undefined]
    /\ aqLog' = [aqLog EXCEPT ![q] =
            @ \o <<"Failed to create room for alias #" \o aq[q].aliasLocalpart, err>>]

\* _onAliasQuery(alias, aliasLocalpart), up to its first asynchronous call.
onAliasQuery(q, aliasLocalpart) ==
    /\ AliasFrame
    /\ aq[q].pc = "idle"
    /\ IF ~HasPrefix(aliasLocalpart)
       THEN /\ aq' = [aq EXCEPT ![q].pc = "threw",
                                ![q].aliasLocalpart = aliasLocalpart,
                                ![q].error = "Invalid alias (" \o aliasLocalpart
                                                \o "): Missing prefix"]
            /\ UNCHANGED <<aqCalls, aqLog>>
       ELSE LET handle == Substring(aliasLocalpart, Len(Prefix))
            IN  /\ aq' = [aq EXCEPT ![q].pc = "hasAuthTokens",
                                    ![q].aliasLocalpart = aliasLocalpart,
                                    ![q].handle = handle]
                /\ aqCalls' = [aqCalls EXCEPT ![q] =
                        Append(@, [op |-> "hasAuthTokens", handle |-> handle])]
                /\ UNCHANGED aqLog

\* A variant of hasAuthTokensResolves: the answer is not looked at.
hasAuthTokensIgnored(q, isAuthed) ==
    /\ AliasFrame
    /\ aq[q].pc = "hasAuthTokens"
    /\ aq' = [aq EXCEPT ![q].pc = "getProfile", ![q].isAuthed = <<isAuthed>>]
    /\ aqCalls' = [aqCalls EXCEPT ![q] =
            Append(@, [op |-> "getProfile", handle |-> aq[q].handle])]
    /\ UNCHANGED aqLog

\* InstagramStore.hasAuthTokens(handle) answers isAuthed.
hasAuthTokensResolves(q, isAuthed) ==
    /\ AliasFrame
    /\ aq[q].pc = "hasAuthTokens"
    /\ IF ~isAuthed
       THEN /\ AliasQueryCatch(q, <<FALSE>>, aq[q].handle
                                    \o " has not authorized us to use their account")
            /\ UNCHANGED aqCalls
       ELSE /\ aq' = [aq EXCEPT ![q].pc = "getProfile", ![q].isAuthed = <<TRUE>>]
            /\ aqCalls' = [aqCalls EXCEPT ![q] =
                    Append(@, [op |-> "getProfile", handle |-> aq[q].handle])]
            /\ UNCHANGED aqLog

\* ProfileService.getProfile(handle) answers profile.
getProfileResolves(q, profile) ==
    /\ AliasFrame
    /\ aq[q].pc = "getProfile"
    /\ aq' = [aq EXCEPT ![q].pc = "upload", ![q].realProfile = profile]
    /\ aqCalls' = [aqCalls EXCEPT ![q] =
            Append(@, [op |-> "uploadContentFromUrl", url |-> profile.avatarUrl,
                       intent |-> BotUserId, name |-> "icon.png"])]
    /\ UNCHANGED aqLog

\* util.uploadContentFromUrl answers the content reference avatarMxc.
uploadResolves(q, avatarMxc) ==
    /\ AliasFrame
    /\ aq[q].pc = "upload"
    /\ aq' = [aq EXCEPT ![q].pc = "resolved",
                        ![q].params = <<RoomCreationParameters(
                            aq[q].aliasLocalpart, aq[q].handle,
                            aq[q].realProfile, avatarMxc)>>]
    /\ UNCHANGED <<aqCalls, aqLog>>

\* One of the three asynchronous calls fails: the chain skips to the .catch.
callRejects(q) ==
    /\ AliasFrame
    /\ aq[q].pc \in {"hasAuthTokens", "getProfile", "upload"}
    /\ AliasQueryCatch(q, aq[q].isAuthed, aq[q].pc \o " failed")
    /\ UNCHANGED aqCalls

(***************************************************************************)
(* _onMedia, _uploadMedia, _postMedia: the media relay.                     *)
(***************************************************************************)
\* The handler before a newMedia event arrives.  pc: "idle", "joined_rooms"
\* (waiting for _getClientRooms), "uploading" (waiting for Promise.all of
\* the uploads), "posted" (the .then of Promise.all ran), "done" (ended
\* without posting), "failed" (a promise of _onMedia rejected).
\* upload[i] is the state of the upload of item i: "pending", "done",
\* "failed".  mxcUrls is the array the uploads push to.
IdleMedia ==
    [pc |-> "idle", media |-> <<>>, userIntent |-> "", rooms |-> <<>>,
     upload |-> <<>>, mxcUrls |-> <<>>]

\* A _postMedia call.  pc: "idle" (not called), "media" (waiting for
\* Promise.all of the media sends), "caption" (waiting for the caption's
\* send), "stored" (the last .then ran), "failed" (the chain rejected).
\* send[k] is the state of the k-th sendMessage of the room: "pending",
\* "acked", "failed".  eventIds is the array of that name.
IdlePost == [pc |-> "idle", content |-> <<>>, send |-> <<>>, eventIds |-> <<>>]

\* getIgUserIntent(handle): the intent of the virtual user; it also queues
\* a profile check.
IgUserIntent(handle) == "@" \o Prefix \o handle \o ":" \o Domain

\* _getClientRooms: res.joined_rooms, or [] when the answer has none.
ClientRooms(res) ==
    IF "joined_rooms" \in DOMAIN res THEN res.joined_rooms ELSE <<>>

\* A variant of NoRooms: the handler goes on without rooms.
NoRoomsIgnored(rooms) == FALSE

\* rooms.length == 0
NoRooms(rooms) == Len(rooms) = 0

\* A variant of HasCaption: every post has a caption.
HasCaptionAlways(caption) == TRUE

\* !caption is false
HasCaption(caption) == caption # ""

\* The content reference the homeserver answers the upload of item i with.
MediaMxc(i) == "mxc://t2l.io/m" \o ToString(i)

\* The event id the homeserver answers the k-th message of room r with.
EventId(r, k) == "$" \o ToString(k) \o r

\* The call _uploadMedia makes for a container.
UploadCall(mediaContainer, postId) ==
    [url |-> mediaContainer.content.url, intent |-> BotUserId,
     name |-> "igmedia-" \o postId \o "."
                \o (IF mediaContainer.type = "video" THEN "mp4" ELSE "jpg")]

\* The body _postMedia sends for one entry of content.
MediaBody(media, postId, sourceUrl) ==
    [url |-> media.mxc, body |-> "igmedia-" \o postId,
     info |-> [w |-> media.container.content.width,
               h |-> media.container.content.height,
               mimetype |-> IF media.container.type = "video"
                            THEN "video/mp4" ELSE "image/jpg"],
     external_url |-> sourceUrl,
     msgtype |-> IF media.container.type = "video" THEN "m.video" ELSE "m.image"]

\* The body _postMedia sends for the caption.
CaptionBody(caption, sourceUrl) ==
    [msgtype |-> "m.text", body |-> caption, external_url |-> sourceUrl]

\* A variant of StoredFor: the records are written for every room.
StoredForEveryRoom(r, eventIds) ==
    {[userId |-> md.media.userId, postId |-> md.media.postId,
      eventId |-> eventIds[k], roomId |-> o] : k \in 1..Len(eventIds), o \in Rooms}

\* The storeMedia calls of the last .then of _postMedia.
StoredFor(r, eventIds) ==
    {[userId |-> md.media.userId, postId |-> md.media.postId,
      eventId |-> eventIds[k], roomId |-> r] : k \in 1..Len(eventIds)}

\* A variant of AfterMediaSends: the caption does not wait for the sends.
AfterMediaSendsNoWait(p) == TRUE

\* Promise.all(contentPromises) is fulfilled: every media send of the
\* _postMedia call p is acknowledged.
AfterMediaSends(p) == \A k \in 1..Len(p.content) : p.send[k] = "acked"

\* _postMedia from the .then of Promise.all(contentPromises) on, for the
\* call p of room r whose media sends are all acknowledged: the caption is
\* sent, or, without a caption, the event ids are stored.  The result is
\* <<the call, the messages to add, the records to add, the marker calls>>.
AfterContent(r, p) ==
    IF HasCaption(md.media.caption)
    THEN <<[p EXCEPT !.pc = "caption", !.send = Append(@, "pending")],
           <<[sender |-> md.userIntent,
              body |-> CaptionBody(md.media.caption, md.media.sourceUrl)]>>,
           {}, 0>>
    ELSE <<[p EXCEPT !.pc = "stored"], <<>>, StoredFor(r, p.eventIds), 1>>

\* _postMedia(roomId, content, ...) up to the end of the call: one
\* sendMessage per entry of content; with no entry, Promise.all([]) is
\* fulfilled at once.
PostMedia(r, content) ==
    LET p == [pc |-> "media", content |-> content,
              send |-> [k \in 1..Len(content) |-> "pending"], eventIds |-> <<>>]
        sent == [k \in 1..Len(content) |->
                    [sender |-> md.userIntent,
                     body |-> MediaBody(content[k], md.media.postId,
                                        md.media.sourceUrl)]]
    IN  IF Len(content) = 0
        THEN LET a == AfterContent(r, p)
             IN  <<a[1], sent \o a[2], a[3], a[4]>>
        ELSE <<p, sent, {}, 0>>

RECURSIVE SumOver(_, _)
SumOver(f, S) ==
    IF S = {} THEN 0
    ELSE LET x == CHOOSE y \in S : TRUE IN f[x] + SumOver(f, S \ {x})

InRooms(rooms) == {rooms[i] : i \in 1..Len(rooms)}

\* The .then of Promise.all(promises) in _onMedia: _postMedia for every
\* room, with the array the uploads pushed to.
PostToRooms(m) ==
    LET res == [r \in InRooms(m.rooms) |-> PostMedia(r, m.mxcUrls)]
    IN  /\ md' = [m EXCEPT !.pc = "posted"]
        /\ post' = [r \in Rooms |->
                IF r \in InRooms(m.rooms) THEN res[r][1] ELSE post[r]]
        /\ messages' = [r \in Rooms |->
                IF r \in InRooms(m.rooms) THEN messages[r] \o res[r][2]
                ELSE messages[r]]
        /\ stored' = stored \cup UNION {res[r][3] : r \in InRooms(m.rooms)}
        /\ expiration' = expiration
                + SumOver([r \in InRooms(m.rooms) |-> res[r][4]], InRooms(m.rooms))

\* A variant of AllUploaded: every upload is settled, failed or not.
AllUploadsSettled(m) == \A j \in 1..Len(m.upload) : m.upload[j] # "pending"

\* Promise.all(promises) is fulfilled: every upload of the event is done.
AllUploaded(m) == \A j \in 1..Len(m.upload) : m.upload[j] = "done"

\* _onMedia(topic, media), up to the call of _getClientRooms.
onMedia(media) ==
    /\ MediaFrame
    /\ md.pc = "idle"
    /\ md' = [md EXCEPT !.pc = "joined_rooms", !.media = media,
                        !.userIntent = IgUserIntent(media.username)]
    /\ profileChecks' = Append(profileChecks, media.username)
    /\ UNCHANGED <<post, messages, uploads, stored, expiration>>

\* GET /joined_rooms answers res: the .then of _getClientRooms and the
\* callback of _onMedia.
joinedRoomsResolves(res) ==
    /\ MediaFrame
    /\ md.pc = "joined_rooms"
    /\ LET rooms == ClientRooms(res)
           n == Len(md.media.media)
           m == [md EXCEPT !.rooms = rooms,
                           !.upload = [i \in 1..n |-> "pending"]]
       IN  IF NoRooms(rooms)
           THEN /\ md' = [md EXCEPT !.pc = "done", !.rooms = rooms]
                /\ UNCHANGED <<post, messages, uploads, stored, expiration>>
           ELSE /\ uploads' = uploads \o
                        [i \in 1..n |-> UploadCall(md.media.media[i], md.media.postId)]
                /\ IF n = 0
                   THEN PostToRooms(m)
                   ELSE /\ md' = [m EXCEPT !.pc = "uploading"]
                        /\ UNCHANGED <<post, messages, stored, expiration>>
    /\ UNCHANGED profileChecks

\* GET /joined_rooms fails: nothing handles the rejection.
joinedRoomsRejects ==
    /\ MediaFrame
    /\ md.pc = "joined_rooms"
    /\ md' = [md EXCEPT !.pc = "failed"]
    /\ UNCHANGED <<post, messages, uploads, stored, expiration, profileChecks>>

\* A variant of UploadedMedia: the container is the loop variable of
\* _onMedia, which holds the last item when the uploads are answered.
UploadedMediaLastContainer(i) ==
    [container |-> md.media.media[Len(md.media.media)], mxc |-> MediaMxc(i)]

\* What the .then of _uploadMedia pushes for item i: the mediaContainer the
\* call was given and the content reference its upload was answered with.
UploadedMedia(i) == [container |-> md.media.media[i], mxc |-> MediaMxc(i)]

\* The upload of item i is answered: the .then of _uploadMedia pushes to
\* the array; when it was the last one and none failed, Promise.all is
\* fulfilled and its .then runs.
mediaUploadResolves(i) ==
    /\ MediaFrame
    /\ md.pc \in {"uploading", "failed"}
    /\ i \in 1..Len(md.upload)
    /\ md.upload[i] = "pending"
    /\ LET m == [md EXCEPT !.upload[i] = "done",
                           !.mxcUrls = Append(@, UploadedMedia(i))]
       IN  IF AllUploaded(m)
           THEN PostToRooms(m)
           ELSE /\ md' = m
                /\ UNCHANGED <<post, messages, stored, expiration>>
    /\ UNCHANGED <<uploads, profileChecks>>

\* The upload of item i fails: Promise.all rejects, its .then never runs.
mediaUploadRejects(i) ==
    /\ MediaFrame
    /\ md.pc \in {"uploading", "failed"}
    /\ i \in 1..Len(md.upload)
    /\ md.upload[i] = "pending"
    /\ md' = [md EXCEPT !.upload[i] = "failed", !.pc = "failed"]
    /\ UNCHANGED <<post, messages, uploads, stored, expiration, profileChecks>>

\* The k-th sendMessage of room r is acknowledged.  A media send pushes its
\* event id; when Promise.all of the media sends is fulfilled the chain
\* goes on.  The caption's send pushes its event id and the ids are stored.
sendResolves(r, k) ==
    /\ MediaFrame
    /\ k \in 1..Len(post[r].send)
    /\ post[r].send[k] = "pending"
    /\ LET p == [post[r] EXCEPT !.send[k] = "acked",
                                !.eventIds = Append(@, EventId(r, k))]
       IN  IF k > Len(p.content)
           THEN \* the caption
                /\ post' = [post EXCEPT ![r] = [p EXCEPT !.pc = "stored"]]
                /\ stored' = stored \cup StoredFor(r, p.eventIds)
                /\ expiration' = expiration + 1
                /\ UNCHANGED messages
           ELSE IF p.pc = "media" /\ AfterMediaSends(p)
           THEN LET a == AfterContent(r, p)
                IN  /\ post' = [post EXCEPT ![r] = a[1]]
                    /\ messages' = [messages EXCEPT ![r] = @ \o a[2]]
                    /\ stored' = stored \cup a[3]
                    /\ expiration' = expiration + a[4]
           ELSE /\ post' = [post EXCEPT ![r] = p]
                /\ UNCHANGED <<messages, stored, expiration>>
    /\ UNCHANGED <<md, uploads, profileChecks>>

\* A variant of RejectedSend: the failed send rejects the chain of every
\* room.
RejectedSendEveryRoom(r, k) ==
    [o \in Rooms |->
        IF o = r THEN [post[o] EXCEPT !.send[k] = "failed", !.pc = "failed"]
        ELSE IF post[o].pc = "idle" THEN post[o]
        ELSE [post[o] EXCEPT !.pc = "failed"]]

\* The _postMedia calls after the k-th sendMessage of room r has failed:
\* the chain of that call is rejected, the other calls are as they were.
RejectedSend(r, k) == [post EXCEPT ![r].send[k] = "failed", ![r].pc = "failed"]

\* The k-th sendMessage of room r fails: the chain of _postMedia rejects.
sendRejects(r, k) ==
    /\ MediaFrame
    /\ k \in 1..Len(post[r].send)
    /\ post[r].send[k] = "pending"
    /\ post' = RejectedSend(r, k)
    /\ UNCHANGED <<md, messages, uploads, stored, expiration, profileChecks>>

(***************************************************************************)
(* _onProfileUpdate: the profile synchronisation.                          *)
(***************************************************************************)
\* The handler before a profileUpdate event arrives.  pc: "idle", "lookup"
\* (waiting for getEntriesByRemoteRoomData), "done" (its callback ran),
\* "failed" (the lookup rejected).  userUpload is the state of the upload
\* for the virtual user: "none", "pending", "done", "failed".
\* remoteRooms is the room id of every entry the lookup answered, in the
\* answer's order; roomUpload[k] is the state of the upload started for
\* the k-th entry.  roomId is the variable of that name: declared with
\* var in the callback, it is one variable for all the turns of the loop
\* and for the closures they create.
IdleProfileUpdate ==
    [pc |-> "idle", changes |-> <<>>, intent |-> "", userUpload |-> "none",
     remoteRooms |-> <<>>, roomUpload |-> <<>>, roomId |-> Undefined]

\* A call to an intent or to util.uploadContentFromUrl.
Call(op, by, room, value) == [op |-> op, by |-> by, room |-> room, value |-> value]

\* A variant of UserDisplayName: no suffix.
UserDisplayNameBare(displayName) == displayName

\* changes.profile.displayName + " (Instagram)"
UserDisplayName(displayName) == displayName \o " (Instagram)"

\* "[Instagram] " + changes.profile.displayName
RoomDisplayName(displayName) == "[Instagram] " \o displayName

\* The content reference the homeserver answers the avatar upload of the
\* k-th entry with (0: the upload for the virtual user).
AvatarMxc(k) == "mxc://t2l.io/a" \o ToString(k)

\* The rooms the room store holds an entry for with this instagram_username.
LinkedRooms(username) == {r \in Rooms : username \in links[r]}

\* The lists that hold every element of the set S once.
Orderings(S) ==
    {l \in [1..Cardinality(S) -> S] : \A i, j \in DOMAIN l : l[i] = l[j] => i = j}

\* What getEntriesByRemoteRoomData({instagram_username: changes.username})
\* may answer: the linked rooms, in any order.
RemoteRoomsAnswers ==
    IF pu.pc = "lookup" THEN Orderings(LinkedRooms(pu.changes.username)) ELSE {}

\* _onProfileUpdate(topic, changes), up to the call of the room store.
onProfileUpdate(changes) ==
    /\ ProfileFrame
    /\ pu.pc = "idle"
    /\ LET intent == IgUserIntent(changes.username)
       IN  /\ pu' = [pu EXCEPT !.pc = "lookup", !.changes = changes,
                               !.intent = intent,
                               !.userUpload = IF changes.changed = "avatar"
                                              THEN "pending" ELSE "none"]
           /\ puCalls' = puCalls \o
                (IF changes.changed = "displayName"
                 THEN <<Call("setDisplayName", intent, "",
                             UserDisplayName(changes.profile.displayName))>>
                 ELSE IF changes.changed = "avatar"
                 THEN <<Call("uploadContentFromUrl", intent, "",
                             changes.profile.avatarUrl)>>
                 ELSE <<>>)
    /\ profileChecks' = Append(profileChecks, changes.username)

\* The upload for the virtual user is answered: intent.setAvatarUrl(mxcUrl).
userAvatarUploadResolves ==
    /\ ProfileFrame
    /\ pu.userUpload = "pending"
    /\ pu' = [pu EXCEPT !.userUpload = "done"]
    /\ puCalls' = Append(puCalls, Call("setAvatarUrl", pu.intent, "", AvatarMxc(0)))
    /\ UNCHANGED profileChecks

userAvatarUploadRejects ==
    /\ ProfileFrame
    /\ pu.userUpload = "pending"
    /\ pu' = [pu EXCEPT !.userUpload = "failed"]
    /\ UNCHANGED <<puCalls, profileChecks>>

\* getEntriesByRemoteRoomData answers remoteRooms: the loop over the
\* entries.  Every turn assigns roomId; an avatar change starts an upload,
\* a display name change calls setRoomName at once.
remoteRoomsResolves(remoteRooms) ==
    /\ ProfileFrame
    /\ pu.pc = "lookup"
    /\ LET n == Len(remoteRooms)
           changed == pu.changes.changed
       IN  /\ pu' = [pu EXCEPT
                    !.pc = "done",
                    !.remoteRooms = remoteRooms,
                    !.roomUpload = IF changed = "avatar"
                                   THEN [k \in 1..n |-> "pending"] ELSE <<>>,
                    !.roomId = IF n = 0 THEN Undefined ELSE remoteRooms[n]]
           /\ puCalls' = puCalls \o
                (IF changed = "avatar"
                 THEN [k \in 1..n |-> Call("uploadContentFromUrl", pu.intent, "",
                                           pu.changes.profile.avatarUrl)]
                 ELSE IF changed = "displayName"
                 THEN [k \in 1..n |-> Call("setRoomName", BotUserId, remoteRooms[k],
                            RoomDisplayName(pu.changes.profile.displayName))]
                 ELSE <<>>)
    /\ UNCHANGED profileChecks

remoteRoomsRejects ==
    /\ ProfileFrame
    /\ pu.pc = "lookup"
    /\ pu' = [pu EXCEPT !.pc = "failed"]
    /\ UNCHANGED <<puCalls, profileChecks>>

\* The upload started for the k-th entry is answered: the closure calls
\* setRoomAvatar(roomId, mxcUrl, {}) with the variable roomId as it is now.
roomAvatarUploadResolves(k) ==
    /\ ProfileFrame
    /\ k \in 1..Len(pu.roomUpload)
    /\ pu.roomUpload[k] = "pending"
    /\ pu' = [pu EXCEPT !.roomUpload[k] = "done"]
    /\ puCalls' = Append(puCalls, Call("setRoomAvatar", BotUserId, pu.roomId, AvatarMxc(k)))
    /\ UNCHANGED profileChecks

roomAvatarUploadRejects(k) ==
    /\ ProfileFrame
    /\ k \in 1..Len(pu.roomUpload)
    /\ pu.roomUpload[k] = "pending"
    /\ pu' = [pu EXCEPT !.roomUpload[k] = "failed"]
    /\ UNCHANGED <<puCalls, profileChecks>>

(***************************************************************************)
(* _bridgeKnownRooms, _processRoom, _tryProcessAdminEvent, removeAdminRoom, *)
(* _onEvent, _onAliasQueried: the rooms.                                   *)
(***************************************************************************)
\* The values of this._adminRooms[roomId]: nothing was ever assigned,
\* null, or the AdminRoom the id-th call of _processRoom constructed.  The
\* id of a null is not of the program: it is the number of calls of
\* _processRoom that had been made when removeAdminRoom assigned the null.
NoAdminRoom == [kind |-> "undefined", id |-> 0]

NullAdminRoom(calls) == [kind |-> "null", id |-> calls]

NewAdminRoom(id) == [kind |-> "AdminRoom", id |-> id]

\* A variant of IsAdminRoom: anything that was assigned, null included.
IsAssigned(a) == a.kind # "undefined"

\* if (this._adminRooms[roomId])
IsAdminRoom(a) == a.kind = "AdminRoom"

\* A call of _processRoom(roomId) that waits for getLinkedRemoteRooms.
\* pc: "links", "members" (waiting for getJoinedMembers), "done",
\* "failed" (a lookup rejected).  remoteRooms and roomMemberIds are the
\* variables of those names, <<>> before they are assigned; category is
\* what the call did: "relayed" (the room has links), "admin" (it
\* constructed an AdminRoom), "ignored".
NewRun(roomId) ==
    [roomId |-> roomId, pc |-> "links", remoteRooms |-> {}, roomMemberIds |-> <<>>,
     otherUserId |-> Undefined, category |-> ""]

\* s.endsWith(t)
EndsWith(s, t) == Len(s) >= Len(t) /\ SubSeq(s, Len(s) - Len(t) + 1, Len(s)) = t

\* isBridgeUser(userId)
isBridgeUser(userId) ==
    LET isVirtualUser == /\ IndexOf(userId, "@" \o Prefix) = 0
                         /\ EndsWith(userId, ":" \o Domain)
    IN  isVirtualUser \/ userId = BotUserId

\* roomMemberIds.indexOf(bot), from 0; -1 is Len(roomMemberIds) here.
BotIdx(roomMemberIds) ==
    IF \E i \in DOMAIN roomMemberIds : roomMemberIds[i] = BotUserId
    THEN (CHOOSE i \in DOMAIN roomMemberIds : roomMemberIds[i] = BotUserId) - 1
    ELSE Len(roomMemberIds)

\* A variant of IsAdminRoomSized: any room with the bot and others.
IsAdminRoomSizedLoose(roomMemberIds) == Len(roomMemberIds) >= 2

\* roomMemberIds.length == 2
IsAdminRoomSized(roomMemberIds) == Len(roomMemberIds) = 2

\* run() calls _bridgeKnownRooms, which asks for the bot's joined rooms.
bridgeKnownRooms ==
    /\ RoomFrame
    /\ scan = "idle"
    /\ scan' = "joined_rooms"
    /\ UNCHANGED <<links, members, adminRooms, runs, requests, aliased, adminEvents>>

\* getJoinedRooms answers rooms: _processRoom is called for each.
botJoinedRoomsResolves(rooms) ==
    /\ RoomFrame
    /\ scan = "joined_rooms"
    /\ Len(runs) + Len(rooms) <= MaxRuns
    /\ scan' = "done"
    /\ runs' = runs \o [k \in 1..Len(rooms) |-> NewRun(rooms[k])]
    /\ UNCHANGED <<links, members, adminRooms, requests, aliased, adminEvents>>

botJoinedRoomsRejects ==
    /\ RoomFrame
    /\ scan = "joined_rooms"
    /\ scan' = "failed"
    /\ UNCHANGED <<links, members, adminRooms, runs, requests, aliased, adminEvents>>

\* getLinkedRemoteRooms(roomId) answers for the i-th call of _processRoom
\* with the links the room store holds now: without any, the call asks
\* for the joined members.
linkedRemoteRoomsResolves(i) ==
    /\ RoomFrame
    /\ i \in 1..Len(runs)
    /\ runs[i].pc = "links"
    /\ LET remoteRooms == links[runs[i].roomId]
       IN  runs' = [runs EXCEPT
                ![i].remoteRooms = remoteRooms,
                ![i].pc = IF Cardinality(remoteRooms) = 0 THEN "members" ELSE "done",
                ![i].category = IF Cardinality(remoteRooms) = 0 THEN "" ELSE "relayed"]
    /\ UNCHANGED <<links, members, adminRooms, scan, requests, aliased, adminEvents>>

\* The call of _onEvent, if any, that waits for the i-th call of
\* _processRoom is resolved or rejected with it.
SettleRequests(i, how) ==
    [e \in 1..Len(requests) |->
        IF requests[e].pc = "processRoom" /\ requests[e].run = i
        THEN [requests[e] EXCEPT !.pc = how] ELSE requests[e]]

\* getJoinedMembers(roomId) answers for the i-th call of _processRoom with
\* the members the room has now, their ids in the order roomMemberIds.  The
\* bot asks as the application service, which the homeserver answers when
\* any user of the service, the bot or a virtual user, is in the room.
joinedMembersResolves(i, roomMemberIds) ==
    /\ RoomFrame
    /\ i \in 1..Len(runs)
    /\ runs[i].pc = "members"
    /\ \E userId \in members[runs[i].roomId] : isBridgeUser(userId)
    /\ LET roomId == runs[i].roomId
           botIdx == BotIdx(roomMemberIds)
       IN  IF IsAdminRoomSized(roomMemberIds)
           THEN /\ adminRooms' = [adminRooms EXCEPT ![roomId] = NewAdminRoom(i)]
                /\ runs' = [runs EXCEPT
                        ![i].pc = "done", ![i].roomMemberIds = roomMemberIds,
                        ![i].otherUserId = roomMemberIds[IF botIdx = 0 THEN 2 ELSE 1],
                        ![i].category = "admin"]
           ELSE /\ runs' = [runs EXCEPT
                        ![i].pc = "done", ![i].roomMemberIds = roomMemberIds,
                        ![i].category = "ignored"]
                /\ UNCHANGED adminRooms
    /\ requests' = SettleRequests(i, "resolved")
    /\ UNCHANGED <<links, members, scan, aliased, adminEvents>>

\* A lookup of the i-th call of _processRoom fails.
processRoomRejects(i) ==
    /\ RoomFrame
    /\ i \in 1..Len(runs)
    /\ runs[i].pc \in {"links", "members"}
    /\ runs' = [runs EXCEPT ![i].pc = "failed"]
    /\ requests' = SettleRequests(i, "rejected")
    /\ UNCHANGED <<links, members, adminRooms, scan, aliased, adminEvents>>

\* removeAdminRoom(roomId), which an AdminRoom calls for its room.
removeAdminRoom(roomId) ==
    /\ RoomFrame
    /\ IsAdminRoom(adminRooms[roomId])
    /\ adminRooms' = [adminRooms EXCEPT ![roomId] = NullAdminRoom(Len(runs))]
    /\ UNCHANGED <<links, members, scan, runs, requests, aliased, adminEvents>>

\* A variant of IsBridgeInvite: an invite of any user.
IsAnyInvite(event) ==
    event.type = "m.room.member" /\ event.membership = "invite"

\* event.type === "m.room.member" && event.content.membership === "invite",
\* and isBridgeUser(event.state_key)
IsBridgeInvite(event) ==
    /\ event.type = "m.room.member"
    /\ event.membership = "invite"
    /\ isBridgeUser(event.state_key)

\* _onEvent(request, context): _tryProcessAdminEvent, then, for an invite
\* of a bridge user, the join of that user.  A call of _onEvent is
\* [event, adminRoom, pc, run, calls]; adminRoom is what
\* _tryProcessAdminEvent read in this._adminRooms[roomId]; pc: "join"
\* (waiting for the join), "processRoom" (waiting for the run-th call of
\* _processRoom), "resolved", "rejected".  calls are the calls it made, in
\* order.
onEvent(event) ==
    /\ RoomFrame
    /\ Len(requests) < MaxEvents
    /\ adminEvents' =
            IF IsAdminRoom(adminRooms[event.room_id])
            THEN Append(adminEvents, [adminRoom |-> adminRooms[event.room_id].id,
                                      event |-> event])
            ELSE adminEvents
    /\ requests' = Append(requests,
            [event |-> event, adminRoom |-> adminRooms[event.room_id], run |-> 0,
             pc |-> IF IsBridgeInvite(event) THEN "join" ELSE "resolved",
             calls |-> <<Call("_tryProcessAdminEvent", "", event.room_id, "")>>
                \o IF IsBridgeInvite(event)
                   THEN <<Call("join", event.state_key, event.room_id, "")>>
                   ELSE <<>>])
    /\ UNCHANGED <<links, members, adminRooms, scan, runs, aliased>>

\* The join of the e-th call of _onEvent succeeds: the invited user is a
\* member, and _processRoom is called for the room.
joinResolves(e) ==
    /\ RoomFrame
    /\ e \in 1..Len(requests)
    /\ requests[e].pc = "join"
    /\ Len(runs) < MaxRuns
    /\ members' = [members EXCEPT ![requests[e].event.room_id] =
                        @ \cup {requests[e].event.state_key}]
    /\ runs' = Append(runs, NewRun(requests[e].event.room_id))
    /\ requests' = [requests EXCEPT
            ![e].pc = "processRoom", ![e].run = Len(runs) + 1,
            ![e].calls = Append(@, Call("_processRoom", "", requests[e].event.room_id, ""))]
    /\ UNCHANGED <<links, adminRooms, scan, aliased, adminEvents>>

joinRejects(e) ==
    /\ RoomFrame
    /\ e \in 1..Len(requests)
    /\ requests[e].pc = "join"
    /\ requests' = [requests EXCEPT ![e].pc = "rejected"]
    /\ UNCHANGED <<links, members, adminRooms, scan, runs, aliased, adminEvents>>

\* The bridge library has created a room for an alias, as the bot, and
\* stores the link _onAliasQuery returned as remote: the room has had no
\* link, and its members are the bot and the virtual users invited so far.
linkRooms(roomId, handle) ==
    /\ RoomFrame
    /\ links[roomId] = {}
    /\ BotUserId \in members[roomId]
    /\ \A userId \in members[roomId] : isBridgeUser(userId)
    /\ links' = [links EXCEPT ![roomId] = {handle}]
    /\ UNCHANGED roomVars

\* _onAliasQueried(alias, roomId), which the library calls after linkRooms.
onAliasQueried(roomId) ==
    /\ RoomFrame
    /\ links[roomId] # {}
    /\ roomId \notin aliased
    /\ Len(runs) < MaxRuns
    /\ aliased' = aliased \cup {roomId}
    /\ runs' = Append(runs, NewRun(roomId))
    /\ UNCHANGED <<links, members, adminRooms, scan, requests, adminEvents>>

(***************************************************************************)
(* Specifications.                                                         *)
(***************************************************************************)
\* The bridge after its constructor.
Constructed ==
    /\ adminRooms = [r \in Rooms |-> NoAdminRoom]
    /\ scan = "idle"
    /\ runs = <<>>
    /\ requests = <<>>
    /\ aliased = {}
    /\ adminEvents = <<>>
    /\ pu = IdleProfileUpdate
    /\ puCalls = <<>>
    /\ aq = [q \in QueryIds |-> IdleQuery]
    /\ aqCalls = [q \in QueryIds |-> <<>>]
    /\ aqLog = [q \in QueryIds |-> <<>>]
    /\ md = IdleMedia
    /\ post = [r \in Rooms |-> IdlePost]
    /\ messages = [r \in Rooms |-> <<>>]
    /\ uploads = <<>>
    /\ stored = {}
    /\ expiration = 0
    /\ profileChecks = <<>>

\* The bridge after its constructor, with the room store and the rooms of
\* the homeserver as earlier runs of the bridge left them: the first room
\* with or without a link and with any of the start members, the second
\* room without a link, with or without the bot.
Init ==
    /\ Constructed
    /\ links \in [Rooms -> SUBSET LinkedHandles]
    /\ links["!r2"] = {}
    /\ members \in [Rooms -> StartMembers]
    /\ members["!r2"] \in OtherStartMembers

NextAlias ==
    \E q \in QueryIds :
        \/ \E aliasLocalpart \in AliasLocalparts : onAliasQuery(q, aliasLocalpart)
        \/ \E isAuthed \in BOOLEAN : hasAuthTokensResolves(q, isAuthed)
        \/ \E profile \in Profiles(aq[q].handle) : getProfileResolves(q, profile)
        \/ \E avatarMxc \in MxcUrls : uploadResolves(q, avatarMxc)
        \/ callRejects(q)

\* The handlers of alias queries and of newMedia events read neither the
\* room store nor the rooms' members: their specifications start from
\* empty ones.  The profile synchronisation reads the room store only.
NoLinks == [r \in Rooms |-> {}]

NoMembers == [r \in Rooms |-> {}]

InitAlias == Constructed /\ links = NoLinks /\ members = NoMembers

SpecAlias == InitAlias /\ [][NextAlias]_vars

NextMedia ==
    \/ \E media \in MediaEvents : onMedia(media)
    \/ \E res \in JoinedRoomsAnswers : joinedRoomsResolves(res)
    \/ joinedRoomsRejects
    \/ \E i \in 1..MaxMedia : mediaUploadResolves(i)
    \/ \E i \in 1..MaxMedia : mediaUploadRejects(i)
    \/ \E r \in Rooms : \E k \in 1..(MaxMedia + 1) : sendResolves(r, k)
    \/ \E r \in Rooms : \E k \in 1..(MaxMedia + 1) : sendRejects(r, k)

InitMedia == Constructed /\ links = NoLinks /\ members = NoMembers

SpecMedia == InitMedia /\ [][NextMedia]_vars

NextProfile ==
    \/ \E changes \in ProfileUpdates : onProfileUpdate(changes)
    \/ userAvatarUploadResolves
    \/ userAvatarUploadRejects
    \/ \E remoteRooms \in RemoteRoomsAnswers : remoteRoomsResolves(remoteRooms)
    \/ remoteRoomsRejects
    \/ \E k \in 1..Cardinality(Rooms) : roomAvatarUploadResolves(k)
    \/ \E k \in 1..Cardinality(Rooms) : roomAvatarUploadRejects(k)

InitProfile ==
    Constructed /\ links \in [Rooms -> SUBSET LinkedHandles] /\ members = NoMembers

SpecProfile == InitProfile /\ [][NextProfile]_vars

\* What getJoinedRooms may answer now: the rooms of the bot, in any order.
BotJoinedRoomsAnswers == Orderings({r \in Rooms : BotUserId \in members[r]})

\* What getJoinedMembers may answer now for the i-th call of _processRoom:
\* the members of the room.  _processRoom reads the order of the ids only
\* when there are two, so every order is drawn for two ids and one order
\* for any other number.
JoinedMembersAnswers(i) ==
    IF i \in 1..Len(runs)
    THEN LET ids == members[runs[i].roomId]
         IN  IF Cardinality(ids) = 2 THEN Orderings(ids)
             ELSE {CHOOSE l \in Orderings(ids) : TRUE}
    ELSE {}

RunIds == 1..MaxRuns

NextRoom ==
    \/ bridgeKnownRooms
    \/ \E rooms \in BotJoinedRoomsAnswers : botJoinedRoomsResolves(rooms)
    \/ botJoinedRoomsRejects
    \/ \E i \in RunIds : linkedRemoteRoomsResolves(i)
    \/ \E i \in RunIds : \E roomMemberIds \in JoinedMembersAnswers(i) :
            joinedMembersResolves(i, roomMemberIds)
    \/ \E i \in RunIds : processRoomRejects(i)
    \/ \E roomId \in Rooms : removeAdminRoom(roomId)
    \/ \E event \in RoomEvents : onEvent(event)
    \/ \E e \in 1..MaxEvents : joinResolves(e)
    \/ \E e \in 1..MaxEvents : joinRejects(e)
    \/ \E roomId \in Rooms : \E handle \in LinkedHandles : linkRooms(roomId, handle)
    \/ \E roomId \in Rooms : onAliasQueried(roomId)

SpecRoom == Init /\ [][NextRoom]_vars

(***************************************************************************)
(* Claims about _onAliasQuery, checked under SpecAlias.                     *)
(***************************************************************************)
\* The localpart is the prefix followed by a handle.
CarriesPrefix(aliasLocalpart) == \E h \in Handles : aliasLocalpart = Prefix \o h

CallsOf(q) == {aqCalls[q][i].op : i \in 1..Len(aqCalls[q])}

\* C1: a query for a prefixed localpart whose handle is authorized and whose
\* profile fetch and avatar upload succeeded has resolved to parameters
\* that invite exactly the virtual user of that handle and whose
\* power-level users give the bot 100 and that virtual user 50.
C1_InviteAndPowerLevels ==
    \A q \in QueryIds : \A h \in Handles :
        (/\ aq[q].aliasLocalpart = Prefix \o h
         /\ aq[q].isAuthed = <<TRUE>>
         /\ "uploadContentFromUrl" \in CallsOf(q)
         /\ aq[q].pc \notin {"upload", "rejected"})
        => /\ aq[q].pc = "resolved"
           /\ Len(aq[q].params) = 1
           /\ LET p == aq[q].params[1]
                  virtual == "@_instagram_" \o h \o ":" \o Domain
              IN  /\ p.invite = <<virtual>>
                  /\ virtual \in DOMAIN p.power_levels.users
                  /\ BotUserId \in DOMAIN p.power_levels.users
                  /\ p.power_levels.users[BotUserId] = 100
                  /\ p.power_levels.users[virtual] = 50

C1_Witness ==
    \E q \in QueryIds :
        /\ aq[q].pc = "resolved"
        /\ aq[q].aliasLocalpart = Prefix \o "al"
        /\ Len(aq[q].params) = 1

\* C2: a query for a localpart that does not start with the prefix has
\* failed with the invalid-alias error and has called no collaborator: no
\* hasAuthTokens, no getProfile, no upload.
C2_NoPrefixNoCalls ==
    \A q \in QueryIds :
        (aq[q].pc # "idle" /\ ~CarriesPrefix(aq[q].aliasLocalpart))
        => /\ aq[q].pc = "threw"
           /\ aq[q].error = "Invalid alias (" \o aq[q].aliasLocalpart \o "): Missing prefix"
           /\ aq[q].params = <<>>
           /\ aqCalls[q] = <<>>

C2_Witness ==
    \E q \in QueryIds :
        aq[q].pc = "threw" /\ aq[q].aliasLocalpart = "x_instagram_al"

\* C3: a query whose authorization query answered false is rejected, has
\* no parameters, and has neither fetched the profile nor uploaded.
C3_UnauthorizedRejected ==
    \A q \in QueryIds :
        aq[q].isAuthed = <<FALSE>>
        => /\ aq[q].pc = "rejected"
           /\ aq[q].params = <<>>
           /\ CallsOf(q) = {"hasAuthTokens"}

C3_Witness ==
    \E q \in QueryIds : aq[q].isAuthed = <<FALSE>> /\ aq[q].pc = "rejected"

\* C4: a query rejected because the authorization query answered false
\* hands its caller the descriptive reason, which differs from what the
\* caller receives when the profile fetch or the upload fails.
C4_ReasonReachesCaller ==
    \A q \in QueryIds :
        (aq[q].pc = "rejected" /\ aq[q].isAuthed = <<FALSE>>)
        => aq[q].error = aq[q].handle \o " has not authorized us to use their account"

\* The steps of _onAliasQuery after the prefix test, by the call each makes.
ProvisionSteps == <<"hasAuthTokens", "getProfile", "uploadContentFromUrl">>

\* The number of calls a query has made when the step named in the error
\* it logged has failed.
CallsWhenFailed(err) ==
    IF err = "getProfile failed" THEN 2
    ELSE IF err = "upload failed" THEN 3
    ELSE 1

\* C18: a query makes its calls in the order hasAuthTokens, getProfile,
\* uploadContentFromUrl, and builds the parameters last; each step starts
\* only after the one before it succeeded.  When a step fails the query is
\* rejected, the later steps are not made and no parameters are returned.
C18_StepsInOrder ==
    \A q \in QueryIds :
        LET n == Len(aqCalls[q])
        IN  /\ n <= 3
            /\ \A k \in 1..n : aqCalls[q][k].op = ProvisionSteps[k]
            /\ n >= 2 => aq[q].isAuthed = <<TRUE>>
            /\ aq[q].pc = "hasAuthTokens" => n = 1
            /\ aq[q].pc = "getProfile" => n = 2
            /\ aq[q].pc = "upload" => n = 3
            /\ Len(aq[q].params) = 1 => (aq[q].pc = "resolved" /\ n = 3 /\ aqLog[q] = <<>>)
            /\ aq[q].pc = "resolved" => Len(aq[q].params) = 1
            /\ Len(aqLog[q]) > 0 =>
                /\ aq[q].pc = "rejected"
                /\ aq[q].params = <<>>
                /\ n = CallsWhenFailed(aqLog[q][2])
            /\ aq[q].pc = "rejected" => Len(aqLog[q]) > 0

\* One query was rejected when its profile fetch failed, after the
\* authorization; another when its upload failed.
C18_Witness ==
    \E q \in QueryIds : \E o \in QueryIds \ {q} :
        /\ aq[q].pc = "rejected"
        /\ aqLog[q][2] = "getProfile failed"
        /\ Len(aqCalls[q]) = 2
        /\ aq[o].pc = "rejected"
        /\ aqLog[o][2] = "upload failed"
        /\ Len(aqCalls[o]) = 3

(***************************************************************************)
(* Claims about _processRoom, checked under SpecRoom.                      *)
(***************************************************************************)
\* The members a call of _processRoom was answered, without their order.
MemberIds(run) == {run.roomMemberIds[k] : k \in 1..Len(run.roomMemberIds)}

\* The i-th call of _processRoom ends in this step with the answer of
\* getJoinedMembers, while the AdminRoom an earlier call constructed for
\* the same room is registered, and it saw the links and the members that
\* earlier call saw.
RepeatsRegisteredRun(i) ==
    /\ i <= Len(runs)
    /\ runs[i].pc = "members"
    /\ runs'[i].pc = "done"
    /\ IsAdminRoom(adminRooms[runs[i].roomId])
    /\ LET first == runs[adminRooms[runs[i].roomId].id]
       IN  /\ first.roomId = runs[i].roomId
           /\ first.remoteRooms = runs'[i].remoteRooms
           /\ MemberIds(first) = MemberIds(runs'[i])

\* C5: _processRoom is idempotent.  A call that classifies a room whose
\* links and members are what an earlier call saw, while the AdminRoom of
\* that earlier call is registered, gives the room the same category and
\* leaves the registered AdminRoom in place: it neither constructs a
\* second AdminRoom nor replaces the registered one.
C5_SecondRunKeepsRecord ==
    [][\A i \in RunIds :
            RepeatsRegisteredRun(i) =>
                /\ runs'[i].category = runs[adminRooms[runs[i].roomId].id].category
                /\ adminRooms'[runs[i].roomId] = adminRooms[runs[i].roomId]]_vars

\* The i-th call of _processRoom ends in this step: its link lookup is
\* answered with links, or its member lookup is answered.
RunEnds(i) ==
    /\ i <= Len(runs)
    /\ runs[i].pc \in {"links", "members"}
    /\ runs'[i].pc = "done"

\* The call saw no link and two members, one of them the bot.
BotAndOneOther(run) ==
    /\ run.remoteRooms = {}
    /\ Len(run.roomMemberIds) = 2
    /\ BotUserId \in MemberIds(run)

\* C12: a call of _processRoom registers an AdminRoom only when it saw no
\* link and exactly two members, one of them the bot; a call that saw no
\* link and one member, three or more, or two without the bot, ignores the
\* room and leaves this._adminRooms as it is.
C12_AdminRoomOnlyForBotAndOneOther ==
    [][\A i \in RunIds :
            RunEnds(i) =>
                /\ (adminRooms' # adminRooms \/ runs'[i].category = "admin")
                        => BotAndOneOther(runs'[i])
                /\ (runs'[i].remoteRooms = {} /\ ~BotAndOneOther(runs'[i]))
                        => (runs'[i].category = "ignored" /\ adminRooms' = adminRooms)]_vars

\* The identities the bridge owns: the bot and the virtual users.
BridgeIdentities == {BotUserId} \cup {VirtualUserId(h) : h \in Handles}

\* The event is a membership invite of an identity the bridge owns.
InvitesBridgeIdentity(event) ==
    /\ event.type = "m.room.member"
    /\ event.membership = "invite"
    /\ event.state_key \in BridgeIdentities

\* The names of the calls a call of _onEvent made, in order.
OpsOf(request) == [k \in 1..Len(request.calls) |-> request.calls[k].op]

\* C16: every call of _onEvent first offers the event to the admin room of
\* its room.  For an invite of an identity the bridge owns it then joins
\* the room as that identity and, only after the join has succeeded, calls
\* _processRoom for the room; for any other event it neither joins nor
\* calls _processRoom.
C16_DispatchJoinClassify ==
    \A e \in 1..Len(requests) :
        LET request == requests[e]
            event == request.event
        IN  /\ request.calls[1] = Call("_tryProcessAdminEvent", "", event.room_id, "")
            /\ InvitesBridgeIdentity(event) =>
                /\ request.calls[2] = Call("join", event.state_key, event.room_id, "")
                /\ \/ /\ OpsOf(request) = <<"_tryProcessAdminEvent", "join">>
                      /\ request.pc \in {"join", "rejected"}
                      /\ request.run = 0
                   \/ /\ OpsOf(request) = <<"_tryProcessAdminEvent", "join", "_processRoom">>
                      /\ request.calls[3].room = event.room_id
                      /\ event.state_key \in members[event.room_id]
                      /\ request.run \in 1..Len(runs)
                      /\ runs[request.run].roomId = event.room_id
            /\ ~InvitesBridgeIdentity(event) =>
                /\ OpsOf(request) = <<"_tryProcessAdminEvent">>
                /\ request.pc = "resolved"
                /\ request.run = 0

\* The virtual user was invited and joined, and the call of _processRoom
\* that followed made the room an admin room.
C16_Witness ==
    \E e \in 1..Len(requests) :
        /\ requests[e].event.state_key = VirtualUserId("al")
        /\ Len(requests[e].calls) = 3
        /\ requests[e].pc = "resolved"
        /\ runs[requests[e].run].category = "admin"

\* An AdminRoom is registered for the room.
Registered(roomId) == adminRooms[roomId].kind = "AdminRoom"

\* _onEvent is called with the event in this step.
OnEventOf(event) ==
    /\ Len(requests') = Len(requests) + 1
    /\ requests'[Len(requests')].event = event

\* C17: an event is given to an AdminRoom if and only if one is registered
\* for the event's room when _onEvent is called, and then to that one; for
\* a room that was unregistered, or never registered, nothing is forwarded
\* and the handler goes on without an error.  removeAdminRoom changes the
\* entry of its room to one that is no AdminRoom and changes nothing else:
\* not the other rooms' entries, not the members of any room.  An entry
\* becomes an AdminRoom again only by a call of _processRoom for that room
\* that ends as "admin".
C17_DispatchAndUnregister ==
    [][/\ \A event \in RoomEvents :
            OnEventOf(event) =>
                /\ adminEvents' =
                        IF Registered(event.room_id)
                        THEN Append(adminEvents,
                                [adminRoom |-> adminRooms[event.room_id].id,
                                 event |-> event])
                        ELSE adminEvents
                /\ requests'[Len(requests')].pc \in {"join", "resolved"}
                /\ adminRooms' = adminRooms
       /\ (\A event \in RoomEvents : ~OnEventOf(event)) => adminEvents' = adminEvents
       /\ \A roomId \in Rooms :
            /\ (Registered(roomId) /\ adminRooms'[roomId].kind # "AdminRoom")
                => /\ \A o \in Rooms \ {roomId} : adminRooms'[o] = adminRooms[o]
                   /\ members' = members
                   /\ links' = links
                   /\ runs' = runs
                   /\ requests' = requests
            /\ (~Registered(roomId) /\ adminRooms'[roomId].kind = "AdminRoom")
                => \E i \in RunIds :
                        /\ RunEnds(i)
                        /\ runs[i].roomId = roomId
                        /\ runs'[i].category = "admin"]_vars

\* A message arrived for a room whose AdminRoom had been unregistered:
\* nothing was forwarded and the handler resolved.
C17_Witness ==
    \E e \in 1..Len(requests) :
        /\ requests[e].adminRoom.kind = "null"
        /\ requests[e].event.type = "m.room.message"
        /\ requests[e].pc = "resolved"
        /\ adminEvents = <<>>

\* C19: whenever a call of _processRoom registers an AdminRoom for a room,
\* the room store holds no link of that room at that moment, however the
\* call's lookups interleave with the creation of the room's link.
C19_NoAdminRoomForLinkedRoom ==
    [][\A i \in RunIds :
            (RunEnds(i) /\ runs'[i].category = "admin")
                => links[runs[i].roomId] = {}]_vars

\* C20: once removeAdminRoom has run for a room, an AdminRoom is
\* registered for it again only by a call of _processRoom that was made
\* after removeAdminRoom ran; a call that had been made before and was
\* waiting for a lookup never registers the room again.
C20_InFlightRunDoesNotReRegister ==
    [][\A i \in RunIds :
            (/\ RunEnds(i)
             /\ adminRooms[runs[i].roomId].kind = "null"
             /\ adminRooms'[runs[i].roomId].kind = "AdminRoom")
                => i > adminRooms[runs[i].roomId].id]_vars

(***************************************************************************)
(* Claims about the media relay, checked under SpecMedia.                   *)
(***************************************************************************)
IsMediaMessage(m) == m.body.msgtype \in {"m.image", "m.video"}

IsCaptionMessage(m) == m.body.msgtype = "m.text"

CountOf(seq, Test(_)) == Cardinality({k \in 1..Len(seq) : Test(seq[k])})

\* C6: once the joined-rooms query of a newMedia event has ended with no
\* room, nothing is uploaded and no message is sent, whatever the number
\* of media items, so that no record is stored and the expiration marker
\* is not advanced.
C6_NoRoomsNoWork ==
    (md.pc \notin {"idle", "joined_rooms"} /\ md.rooms = <<>>)
    => /\ uploads = <<>>
       /\ \A r \in Rooms : messages[r] = <<>>
       /\ stored = {}
       /\ expiration = 0

C6_Witness ==
    /\ md.pc = "done"
    /\ md.rooms = <<>>
    /\ Len(md.media.media) = MaxMedia

\* Every upload and every send of the event succeeded, in a room or more.
AllSucceeded ==
    /\ md.pc = "posted"
    /\ md.rooms # <<>>
    /\ \A r \in InRooms(md.rooms) : post[r].pc = "stored"

\* C7: when a newMedia event with m items was delivered to one room or
\* more and every call succeeded, there were exactly m uploads, one per
\* item and all by the bot, and every joined room received exactly m media
\* messages and one caption message if the caption is present (none
\* otherwise), each with the post's source url as external_url.
C7_UploadsPerItemMessagesPerRoom ==
    AllSucceeded =>
        LET m == Len(md.media.media)
        IN  /\ Len(uploads) = m
            /\ \A i \in 1..m :
                    /\ uploads[i].intent = BotUserId
                    /\ uploads[i].url = md.media.media[i].content.url
            /\ \A r \in InRooms(md.rooms) :
                    /\ CountOf(messages[r], IsMediaMessage) = m
                    /\ CountOf(messages[r], IsCaptionMessage)
                            = IF md.media.caption = "" THEN 0 ELSE 1
                    /\ Len(messages[r]) = m + IF md.media.caption = "" THEN 0 ELSE 1
                    /\ \A k \in 1..Len(messages[r]) :
                            messages[r][k].body.external_url = md.media.sourceUrl
            /\ \A r \in Rooms \ InRooms(md.rooms) : messages[r] = <<>>

C7_Witness ==
    /\ AllSucceeded
    /\ Len(md.media.media) = 2
    /\ Len(md.rooms) = 2
    /\ md.media.caption = "hi"
    /\ Len(uploads) = 2
    /\ \A r \in Rooms : Len(messages[r]) = 3

\* C8: in every room, when the caption message has been sent every media
\* message of the room is acknowledged; and a room one of whose media
\* sends failed has no caption message.
C8_CaptionAfterMedia ==
    \A r \in Rooms :
        /\ (\E k \in 1..Len(messages[r]) : IsCaptionMessage(messages[r][k]))
            => \A j \in 1..Len(messages[r]) :
                    IsMediaMessage(messages[r][j]) => post[r].send[j] = "acked"
        /\ (\E j \in 1..Len(messages[r]) :
                IsMediaMessage(messages[r][j]) /\ post[r].send[j] = "failed")
            => ~\E k \in 1..Len(messages[r]) : IsCaptionMessage(messages[r][k])

\* The caption is sent in one room, after its two media messages, while a
\* media send of the other room is still pending.
C8_Witness ==
    \E r \in Rooms : \E o \in Rooms \ {r} :
        /\ Len(messages[r]) = 3
        /\ IsCaptionMessage(messages[r][3])
        /\ Len(messages[o]) = 2
        /\ post[o].send[1] = "pending"

\* The record is of the k-th sendMessage of its room: the message was sent
\* for the post of the event and its send was acknowledged with the
\* record's event id.
RecordOfSend(rec, k) ==
    /\ k \in 1..Len(messages[rec.roomId])
    /\ k \in 1..Len(post[rec.roomId].send)
    /\ post[rec.roomId].send[k] = "acked"
    /\ rec.eventId = EventId(rec.roomId, k)
    /\ messages[rec.roomId][k].body.external_url = md.media.sourceUrl
    /\ IsMediaMessage(messages[rec.roomId][k])
            => messages[rec.roomId][k].body.body = "igmedia-" \o rec.postId

\* C11: every stored record (userId, postId, eventId, roomId) is of a
\* message that was sent to that room for that post and acknowledged with
\* that event id; the room is one of the event's rooms, none of its sends
\* failed and none is pending.
C11_RecordsOfAcknowledgedSends ==
    \A rec \in stored :
        /\ rec.userId = md.media.userId
        /\ rec.postId = md.media.postId
        /\ rec.roomId \in InRooms(md.rooms)
        /\ \E k \in 1..(MaxMedia + 1) : RecordOfSend(rec, k)
        /\ \A k \in 1..Len(post[rec.roomId].send) : post[rec.roomId].send[k] = "acked"

\* One room has its records, the caption's among them, while a send of the
\* other room failed and a send of it is acknowledged: that room has none.
C11_Witness ==
    \E r \in Rooms : \E o \in Rooms \ {r} :
        /\ md.rooms = <<r, o>>
        /\ Cardinality({rec \in stored : rec.roomId = r}) = MaxMedia + 1
        /\ post[o].pc = "failed"
        /\ \E k \in 1..Len(post[o].send) : post[o].send[k] = "acked"
        /\ {rec \in stored : rec.roomId = o} = {}

\* C13: when an upload of the newMedia event has failed, no message, media
\* or caption, is sent to any room, no record is stored and the expiration
\* marker is not advanced, whatever the other uploads did and whenever
\* they were answered.
C13_FailedUploadAbandonsBatch ==
    (\E i \in 1..Len(md.upload) : md.upload[i] = "failed")
    => /\ \A r \in Rooms : messages[r] = <<>> /\ post[r] = IdlePost
       /\ stored = {}
       /\ expiration = 0

\* The last upload failed and the others are done, for an event with a
\* caption and two rooms.
C13_Witness ==
    /\ Len(md.upload) = MaxMedia
    /\ md.upload[MaxMedia] = "failed"
    /\ \A i \in 1..(MaxMedia - 1) : md.upload[i] = "done"
    /\ Len(md.mxcUrls) = MaxMedia - 1
    /\ Len(md.rooms) = 2
    /\ md.media.caption # ""

\* The number of messages _postMedia sends to a room for the event.
MessagesPerRoom == Len(md.media.media) + IF md.media.caption = "" THEN 0 ELSE 1

\* Every send of room r was made and acknowledged.
RoomComplete(r) ==
    /\ Len(post[r].send) = MessagesPerRoom
    /\ \A k \in 1..MessagesPerRoom : post[r].send[k] = "acked"

\* C14: the rooms of a newMedia event go on independently.  Whatever
\* happened to the sends of the other rooms, a room whose media sends are
\* all acknowledged has been sent its caption, and a room all of whose
\* sends are acknowledged has all its messages, a stored record for each
\* of them, and its call of updateMediaExpirationTime made.
C14_RoomsIndependent ==
    md.pc = "posted" =>
        /\ \A r \in InRooms(md.rooms) :
            (\A k \in 1..Len(md.media.media) : post[r].send[k] = "acked")
            => /\ Len(messages[r]) = MessagesPerRoom
               /\ RoomComplete(r) =>
                    {rec.eventId : rec \in {x \in stored : x.roomId = r}}
                        = {EventId(r, k) : k \in 1..MessagesPerRoom}
        /\ expiration = Cardinality({r \in InRooms(md.rooms) : RoomComplete(r)})

\* The first media send of one room failed; the other room has all its
\* messages and records and the marker was advanced once.
C14_Witness ==
    \E r \in Rooms : \E o \in Rooms \ {r} :
        /\ md.pc = "posted"
        /\ md.rooms = <<o, r>>
        /\ Len(md.media.media) = MaxMedia
        /\ md.media.caption # ""
        /\ Len(post[o].send) >= 1
        /\ post[o].send[1] = "failed"
        /\ RoomComplete(r)
        /\ Cardinality({x \in stored : x.roomId = r}) = MaxMedia + 1
        /\ expiration = 1

\* Every send of room r is settled and the chain of its _postMedia call
\* has ended: no send is pending and none will be made.
RoomSettled(r) ==
    /\ md.pc = "posted"
    /\ r \in InRooms(md.rooms)
    /\ post[r].pc \in {"stored", "failed"}
    /\ \A k \in 1..Len(post[r].send) : post[r].send[k] # "pending"

\* C15: once every send of a room is settled, every message that was
\* acknowledged in the room, the caption's included, has a stored record
\* with the message's event id for the post and the room.
C15_EveryPostedMessageRecorded ==
    \A r \in Rooms :
        RoomSettled(r) =>
            \A k \in 1..Len(post[r].send) :
                post[r].send[k] = "acked" =>
                    [userId |-> md.media.userId, postId |-> md.media.postId,
                     eventId |-> EventId(r, k), roomId |-> r] \in stored

\* The media message carries the content reference of the upload of item
\* i with the type, width and height of item i.
PairsItem(m, i) ==
    /\ m.body.url = MediaMxc(i)
    /\ m.body.info.w = md.media.media[i].content.width
    /\ m.body.info.h = md.media.media[i].content.height
    /\ m.body.msgtype = IF md.media.media[i].type = "video" THEN "m.video" ELSE "m.image"
    /\ m.body.info.mimetype
            = IF md.media.media[i].type = "video" THEN "video/mp4" ELSE "image/jpg"

\* C21: in whatever order the uploads of a newMedia event were answered,
\* every media message sent to a room carries the content reference of the
\* upload of one item together with the type, width and height of that
\* same item, and every item is in exactly one media message of each room
\* of the event.
C21_ReferencePairedWithItsItem ==
    /\ \A r \in Rooms : \A k \in 1..Len(messages[r]) :
            IsMediaMessage(messages[r][k]) =>
                \E i \in 1..Len(md.media.media) : PairsItem(messages[r][k], i)
    /\ md.pc = "posted" =>
            \A r \in InRooms(md.rooms) : \A i \in 1..Len(md.media.media) :
                Cardinality({k \in 1..Len(messages[r]) :
                    /\ IsMediaMessage(messages[r][k])
                    /\ messages[r][k].body.url = MediaMxc(i)}) = 1

\* The upload of the last item was answered first, and the two rooms were
\* sent the messages: the first message of each room is of the last item.
C21_Witness ==
    /\ md.pc = "posted"
    /\ Len(md.rooms) = 2
    /\ Len(md.media.media) = MaxMedia
    /\ md.mxcUrls[1].mxc = MediaMxc(MaxMedia)
    /\ \A r \in Rooms :
            /\ Len(messages[r]) >= MaxMedia
            /\ PairsItem(messages[r][1], MaxMedia)

(***************************************************************************)
(* Claims about the profile synchronisation, checked under SpecProfile.    *)
(***************************************************************************)
ProfileCalls == {puCalls[i] : i \in 1..Len(puCalls)}

\* C9: a profileUpdate event whose changed field is displayName sets the
\* display name of the account's virtual user to the name with the suffix
\* and, once the room store has answered, the name of every room linked to
\* the account to the name with the prefix; it uploads nothing and sets no
\* user avatar and no room avatar.
C9_DisplayNameOnly ==
    (pu.pc # "idle" /\ pu.changes.changed = "displayName")
    => LET name == pu.changes.profile.displayName
           virtual == "@_instagram_" \o pu.changes.username \o ":" \o Domain
       IN  /\ Call("setDisplayName", virtual, "", name \o " (Instagram)")
                    \in ProfileCalls
           /\ pu.pc = "done" =>
                \A r \in Rooms :
                    pu.changes.username \in links[r]
                    => Call("setRoomName", BotUserId, r, "[Instagram] " \o name)
                            \in ProfileCalls
           /\ \A c \in ProfileCalls :
                    /\ c.op \in {"setDisplayName", "setRoomName"}
                    /\ c.op = "setDisplayName" => c.value = name \o " (Instagram)"
                    /\ c.op = "setRoomName" => c.value = "[Instagram] " \o name

C9_Witness ==
    /\ pu.pc = "done"
    /\ pu.changes.changed = "displayName"
    /\ \A r \in Rooms : "al" \in links[r]
    /\ Len(puCalls) = 1 + Cardinality(Rooms)

\* C10: when a profileUpdate event whose changed field is avatar found one
\* linked room or more and every upload started for a room has succeeded,
\* every linked room is the target of a setRoomAvatar call of the bot, with
\* the content reference of the upload started for that room.
C10_EveryLinkedRoomGetsItsAvatar ==
    (/\ pu.pc = "done"
     /\ pu.changes.changed = "avatar"
     /\ Len(pu.remoteRooms) >= 1
     /\ \A k \in 1..Len(pu.roomUpload) : pu.roomUpload[k] = "done")
    => \A k \in 1..Len(pu.remoteRooms) :
            Call("setRoomAvatar", BotUserId, pu.remoteRooms[k], AvatarMxc(k))
                \in ProfileCalls

=============================================================================
